---- MODULE Spec2Model ----
(***************************************************************************)
(* Model of the three downloader scripts of bili_app_splash:               *)
(*   splash_downloader.py  (SplashDownloader, multi-endpoint + hash dedup)  *)
(*   get_app_splash.py     (SplashDownloader, signed API + retry loop)      *)
(*   getwallpaper.py       (WallpaperDownloader, paged API + thread pool)   *)
(* One behaviour executes one of the scripts, possibly several times in a   *)
(* row (each execution is a fresh process over the files the previous one   *)
(* left on disk).                                                           *)
(***************************************************************************)
EXTENDS Integers, Sequences, FiniteSets, TLC

(***************************************************************************)
(* Bounds of the model.                                                     *)
(***************************************************************************)
\* the clock stops here: it ticks once per item a run processes
MaxClock == 3
\* the most lines the URL file gets where its reading and writing are
\* examined on their own
MaxLines == 3
\* the pictures of the album whose pool is examined on its own
PoolPictures == 9

(***************************************************************************)
(* JSON values as the Python json module yields them.                       *)
(***************************************************************************)
JNull == [t |-> "null"]
JNum(n) == [t |-> "num", n |-> n]
JStr(x) == [t |-> "str", x |-> x]
JList(s) == [t |-> "list", s |-> s]
JObj(f) == [t |-> "obj", f |-> f]
EmptyDict == JObj([k \in {} |-> JNull])

\* isinstance(j, dict)
IsDict(j) == j.t = "obj"
\* isinstance(j, list)
IsList(j) == j.t = "list"

\* Python truth value of a JSON value
Truthy(j) ==
    CASE j.t = "null" -> FALSE
      [] j.t = "num"  -> j.n # 0
      [] j.t = "str"  -> j.x # ""
      [] j.t = "list" -> Len(j.s) > 0
      [] j.t = "obj"  -> DOMAIN j.f # {}

\* dict.get(k, default)
Get(j, k, d) == IF k \in DOMAIN j.f THEN j.f[k] ELSE d

(***************************************************************************)
(* The environment: URLs, image payloads, API records and API responses.    *)
(***************************************************************************)
U1 == "https://i0.hdslb.com/bfs/a.jpg"
U2 == "https://i0.hdslb.com/bfs/b.jpg"
ShortUrl == "/a.jpg"

\* image bodies a download can return
Contents == {"P1", "P2"}
\* the Content-Type header a 200 response to a download can carry
ContentTypes == {"image/jpeg", "text/html"}

\* hashlib.sha256(content).hexdigest(), injective on the modelled bodies
sha256(content) == "h" \o content

\* records of the upstream list
RecThumb1 == JObj([k \in {"thumb"} |-> JStr(U1)])
RecImage2 ==
    JObj([k \in {"thumb", "image", "url"} |->
            CASE k = "thumb" -> JStr("") [] k = "image" -> JStr(U2) [] k = "url" -> JStr(U1)])
RecThumb2 == JObj([k \in {"thumb"} |-> JStr(U2)])
RecShort == JObj([k \in {"url"} |-> JStr(ShortUrl)])
RecNoUrl == JObj([k \in {"id"} |-> JNum(7)])
\* a URL whose path holds the character "|", written as the text before the
\* "|" and the text after it
UBarHead == "https://i0.hdslb.com/bfs/c"
UBarTail == "d.jpg"
UBar == UBarHead \o "|" \o UBarTail
RecBare == JStr(U1)

\* the upstream lists the model feeds to the scripts
RecordLists ==
    { <<RecThumb1>>, <<RecThumb1, RecImage2>>, <<RecThumb1, RecThumb1>>,
      <<RecShort, RecThumb2>>, <<RecNoUrl, RecThumb1>>, <<RecBare, RecThumb2>> }

\* the lists the model presents in every shape
ShapeLists == { <<RecThumb1>>, <<RecThumb1, RecImage2>> }

\* the JSON document of a given shape around a list of records
MkPayload(shape, recs) ==
    LET code0(k, v) == JObj([x \in {"code", k} |-> IF x = "code" THEN JNum(0) ELSE v])
    IN CASE shape = "data.list"   -> code0("data", JObj([x \in {"list"} |-> JList(recs)]))
         [] shape = "data"        -> code0("data", JList(recs))
         [] shape = "data.nested" -> code0("data", JList(<<JList(recs)>>))
         [] shape = "data.first"  -> code0("data", JObj([x \in {"items"} |-> JList(recs)]))
         [] shape = "list"        -> code0("list", JList(recs))
         [] shape = "toplevel"    -> JList(recs)
         [] shape = "empty"       -> code0("data", JObj([x \in {"list"} |-> JList(<<>>)]))
         [] shape = "noshape"     -> code0("data", EmptyDict)
         [] shape = "datanull"    -> code0("data", JNull)
         [] shape = "error"       -> JObj([x \in {"code", "message"} |->
                                            IF x = "code" THEN JNum(0 - 101) ELSE JStr("denied")])
         [] shape = "emptyobj"    -> EmptyDict

ListShapes == {"data.list", "data", "data.nested", "data.first", "list", "toplevel"}
OtherShapes == {"empty", "noshape", "datanull", "error", "emptyobj"}

\* response bodies: k = "json" is a well-formed JSON text, "wrapped" is a
\* JSON object surrounded by other text, "garbage" holds no JSON at all
Texts ==
    { [k |-> "empty", shape |-> "", recs |-> <<>>],
      [k |-> "garbage", shape |-> "", recs |-> <<>>] }
    \cup { [k |-> "json", shape |-> "data.list", recs |-> r] : r \in RecordLists }
    \cup { [k |-> "json", shape |-> s, recs |-> r] : s \in ListShapes, r \in ShapeLists }
    \cup { [k |-> "json", shape |-> s, recs |-> <<>>] : s \in OtherShapes }
    \cup { [k |-> "wrapped", shape |-> s, recs |-> <<>>] : s \in {"empty", "error"} }
    \cup { [k |-> "wrapped", shape |-> "data.list", recs |-> r] : r \in {<<RecThumb1>>} }

NoText == [k |-> "empty", shape |-> "", recs |-> <<>>]
\* requests.get raised (response is None); url is the URL requested
NetError == [net |-> "error", url |-> "", status |-> 0, ctype |-> "", text |-> NoText]
\* no response received yet
NoResp == [net |-> "none", url |-> "", status |-> 0, ctype |-> "", text |-> NoText]

ApiResponses ==
    { NetError,
      [net |-> "ok", url |-> "", status |-> 500, ctype |-> "text/html",
       text |-> [k |-> "garbage", shape |-> "", recs |-> <<>>]],
      [net |-> "ok", url |-> "", status |-> 500, ctype |-> "application/json",
       text |-> [k |-> "json", shape |-> "data.list", recs |-> <<RecThumb1>>]] }
    \cup { [net |-> "ok", url |-> "", status |-> 200, ctype |-> "application/json", text |-> t] :
              t \in {x \in Texts : x.k \in {"json", "empty"}} }
    \cup { [net |-> "ok", url |-> "", status |-> 200, ctype |-> "text/html", text |-> t] :
              t \in {x \in Texts : x.k # "json"} }

(***************************************************************************)
(* splash_downloader.py: pure helpers.                                      *)
(***************************************************************************)
SPLASH_API == "https://api.bilibili.com/x/v2/splash/show"
ALTERNATE_API == "https://api.bilibili.com/x/v2/splash/list"
BACKUP_API == "https://api.bilibili.com/x/v2/splash"
APP_API == "https://app.bilibili.com/x/v2/splash/show"
Endpoints == <<SPLASH_API, ALTERNATE_API, BACKUP_API, APP_API>>

\* the orders random.shuffle can leave the endpoint list in
Shuffles ==
    { s \in [1..Len(Endpoints) -> {Endpoints[i] : i \in 1..Len(Endpoints)}] :
        \A i, j \in 1..Len(Endpoints) : i # j => s[i] # s[j] }

extract_json_any(text) == MkPayload("empty", <<>>)

\* _extract_json: json.loads(text), else the outermost {...} of the text
extract_json(text) ==
    CASE text.k = "json"    -> MkPayload(text.shape, text.recs)
      [] text.k = "wrapped" -> MkPayload(text.shape, text.recs)
      [] OTHER              -> JNull

\* _process_api_response: JNull stands for Python's None
process_api_response(response) ==
    IF response.net # "ok" \/ response.status # 200 THEN JNull
    ELSE IF response.ctype = "application/json"
         THEN IF response.text.k = "json"
              THEN MkPayload(response.text.shape, response.text.recs)
              ELSE extract_json(response.text)
         ELSE IF response.text.k = "empty" THEN JNull
              ELSE extract_json(response.text)

ResNone == [r |-> "none", items |-> <<>>]
ResRaise == [r |-> "raise", items |-> <<>>]
ResList(s) == [r |-> "list", items |-> s]

\* first element of a sequence of JSON values that is a non-empty list
RECURSIVE FirstNonEmptyList(_)
FirstNonEmptyList(paths) ==
    IF paths = <<>> THEN ResList(<<>>)
    ELSE IF IsList(Head(paths)) /\ Truthy(Head(paths)) THEN ResList(Head(paths).s)
         ELSE FirstNonEmptyList(Tail(paths))

\* _get_splash_items: "raise" is the AttributeError of calling .get on a
\* value of "data" that is not a dict
get_splash_items(api_data) ==
    IF ~Truthy(api_data) \/ ~IsDict(api_data) THEN ResNone
    ELSE LET code == Get(api_data, "code", JNull) IN
         IF ~(code.t = "num" /\ code.n = 0) THEN ResNone
         ELSE LET data == Get(api_data, "data", EmptyDict) IN
              IF ~IsDict(data) THEN ResRaise
              ELSE FirstNonEmptyList(
                     << Get(data, "list", JList(<<>>)),
                        Get(data, "splash_list", JList(<<>>)),
                        Get(api_data, "data", JList(<<>>)),
                        Get(api_data, "list", JList(<<>>)),
                        Get(api_data, "splash", JList(<<>>)),
                        Get(api_data, "images", JList(<<>>)) >>)

try_endpoint_accept(response) ==
    LET api_data == process_api_response(response) IN
    IF ~Truthy(api_data) THEN [r |-> "return", items |-> <<>>]
    ELSE LET splash_items == get_splash_items(api_data) IN
         CASE splash_items.r = "none"  -> [r |-> "continue", items |-> <<>>]
           [] splash_items.r = "raise" -> [r |-> "raise", items |-> <<>>]
           [] splash_items.r = "list"  -> [r |-> "return", items |-> splash_items.items]

\* one trial of the endpoint loop of _fetch_splash_list:
\* "continue" (next candidate), "return" (items) or "raise"
try_endpoint(response) ==
    LET api_data == process_api_response(response) IN
    IF ~Truthy(api_data) THEN [r |-> "continue", items |-> <<>>]
    ELSE LET splash_items == get_splash_items(api_data) IN
         CASE splash_items.r = "none"  -> [r |-> "continue", items |-> <<>>]
           [] splash_items.r = "raise" -> [r |-> "raise", items |-> <<>>]
           [] splash_items.r = "list"  -> [r |-> "return", items |-> splash_items.items]

\* the cache-busting rewrite of an asset URL (lines 309-319)
bust(url, t) == url \o "?_=" \o ToString(t)

\* A text is a sequence of pieces, each a string without "|" and without
\* white space at its ends, or one of the one-character strings "|" and " ".
\* the pieces of a URL: the URL itself unless it holds a "|"
Tokens(url) == IF url = UBar THEN <<UBarHead, "|", UBarTail>> ELSE <<url>>

\* the string a text spells
RECURSIVE Join(_)
Join(text) == IF text = <<>> THEN "" ELSE Head(text) \o Join(Tail(text))

\* str.strip()
RECURSIVE strip(_)
strip(text) ==
    IF text = <<>> THEN <<>>
    ELSE IF Head(text) = " " THEN strip(Tail(text))
    ELSE IF text[Len(text)] = " " THEN strip(SubSeq(text, 1, Len(text) - 1))
    ELSE text

\* position of the first "|" of a text, 0 if there is none
RECURSIVE Find(_, _)
Find(text, i) ==
    IF i > Len(text) THEN 0 ELSE IF text[i] = "|" THEN i ELSE Find(text, i + 1)

\* the line _save_url writes, without its newline: f"{content_hash}|{url}"
Line(content_hash, url) == <<content_hash, "|">> \o Tokens(url)

load_url_set_whole(file, read) ==
    { Join(strip(file[i])) : i \in { j \in 1..read : strip(file[j]) # <<>> } }

\* _load_url_set: read is the number of lines read before the file raised
\* an error (all of them if it raised none); str.split('|', 1) cuts at the
\* first "|"
load_url_set(file, read) ==
    { LET line == strip(file[i])
          bar == Find(line, 1)
      IN IF bar > 0 THEN Join(strip(SubSeq(line, bar + 1, Len(line))))
         ELSE Join(line) :
      i \in { j \in 1..read : strip(file[j]) # <<>> } }

image_fields_reversed == <<"cover", "splash", "image_url", "url", "image", "thumb">>

image_fields == <<"thumb", "image", "url", "image_url", "splash", "cover">>

\* index of the first field of image_fields with a truthy value, 0 if none
RECURSIVE FirstField(_, _)
FirstField(item, i) ==
    IF i > Len(image_fields) THEN 0
    ELSE IF Truthy(Get(item, image_fields[i], JNull)) THEN i
         ELSE FirstField(item, i + 1)

(***************************************************************************)
(* State.                                                                   *)
(***************************************************************************)
VARIABLES
    prog,              \* the script being executed: "splash", "app" or "wall"
    now,               \* the clock (time.time()), in ticks
    pc,                \* position of the current execution
    endpoints,         \* splash: the shuffled endpoint list of _fetch_splash_list
    api_log,           \* splash: endpoints requested so far, in order
    api_resp,          \* the response the last API request received
    bodies,            \* splash: what the bodies received by this execution have in common
    splash_list,       \* splash: the list run() iterates over
    item_idx,          \* splash: index of the next item of splash_list
    url_set,           \* splash: self.url_set
    url_file,          \* splash: the lines of the URL file (the ledger)
    output_dir,        \* splash: the files of the output directory
    downloaded_count,  \* self.downloaded_count
    skipped_count,     \* self.skipped_count
    failed_count,      \* self.failed_count
    success,           \* splash: what run() returned ("none" while running)
    last,              \* what the most recent item of the loop came to
    handled,           \* [url, hash] of the fetches that completed and were recorded
    prev_handled,      \* the value of handled when the current execution started
    splash_items,      \* app: self.splash_items
    attempt,           \* app: the attempt number of the retry loop
    report_data,       \* app: the counters of self.report_data
    download_dir,      \* app: the files of DOWNLOAD_DIR
    exit_code,         \* app: what run() returned ("none" while running)
    broke,             \* app: an attempt for the current item broke off mid-stream
    slept,             \* app: the delays slept in the retry loop of the current item
    urls_file,         \* wall: the lines of URLS_FILE
    page,              \* wall: the page index of run()
    album_queue,       \* wall: the albums of the current page not processed yet
    tasks,             \* wall: the downloads submitted to the pool of the current album
    pool_base,         \* wall: sum of the three counters when the pool was created
    got,               \* source URLs downloaded by the current execution
    load_read,         \* splash: the lines of the URL file the last _load_url_set read
    api_attempt,       \* wall: the loop index of _api_request
    api_trail          \* wall: the requests and sleeps of the current _api_request, in order

vars == << prog, now, pc, endpoints, api_log, api_resp, bodies, splash_list, item_idx,
           url_set, url_file, output_dir, downloaded_count, skipped_count, failed_count,
           success, last, handled, prev_handled,
           splash_items, attempt, report_data, download_dir, exit_code, broke, slept,
           urls_file, page, album_queue, tasks, pool_base, got, load_read,
           api_attempt, api_trail >>

\* the variables only get_app_splash.py uses
GAS_vars == << splash_items, attempt, report_data, download_dir, exit_code, broke,
              slept >>
\* the variables only getwallpaper.py uses
WP_vars == << urls_file, page, album_queue, tasks, pool_base, api_attempt, api_trail >>
\* the variables of the retry loop of _api_request
API_vars == << api_attempt, api_trail >>

NoLast == [url |-> "", outcome |-> "none", requests |-> 0, saved |-> FALSE, ctype |-> ""]

\* the URLs of a set of recorded fetches
Urls(fetches) == { f.url : f \in fetches }

(***************************************************************************)
(* splash_downloader.py: SplashDownloader.                                  *)
(***************************************************************************)
\* the part of the object a single _download_image call reads and writes
Self ==
    [ url_set |-> url_set, url_file |-> url_file, output_dir |-> output_dir,
      downloaded_count |-> downloaded_count, skipped_count |-> skipped_count,
      failed_count |-> failed_count,
      outcome |-> "none", requests |-> 0, saved |-> FALSE ]

save_url_rewrite(self, content_hash, url, io) ==
    [self EXCEPT !.url_file = <<Line(content_hash, url)>>,
                 !.url_set = @ \cup {url},
                 !.saved = TRUE]

\* _save_url: io is FALSE when opening or writing the URL file raises
save_url(self, content_hash, url, io) ==
    IF io
    THEN [self EXCEPT !.url_file = Append(@, Line(content_hash, url)),
                      !.url_set = @ \cup {url},
                      !.saved = TRUE]
    ELSE self

File_same(content_hash, stamp, bytes) == [hash |-> "", stamp |-> 0, bytes |-> ""]

\* the name of a stored file is "{hash}_{stamp}_splash.jpg"
File(content_hash, stamp, bytes) == [hash |-> content_hash, stamp |-> stamp, bytes |-> bytes]
glob_none(dir, content_hash) == {}

\* self.output_dir.glob(f"{content_hash}_*")
glob(dir, content_hash) == { f \in dir : f.hash = content_hash }

\* _download_image: net is "err" when requests.get / raise_for_status raises,
\* otherwise the body received; t is the time of the call
download_image(self, url, net, io, t) ==
    IF url = "" \/ Len(url) < 10
    THEN [self EXCEPT !.outcome = "Invalid"]
    ELSE IF url \in self.url_set
    THEN [self EXCEPT !.skipped_count = @ + 1, !.outcome = "SkippedDuplicateURL"]
    ELSE IF net = "err"
    THEN [self EXCEPT !.failed_count = @ + 1, !.outcome = "Failed", !.requests = 1]
    ELSE LET url2 == bust(url, t)
             content_hash == sha256(net)
             existing_files == glob(self.output_dir, content_hash)
         IN IF existing_files # {}
            THEN save_url([self EXCEPT !.skipped_count = @ + 1,
                                       !.outcome = "SkippedDuplicateContent",
                                       !.requests = 1],
                          content_hash, url2, io)
            ELSE LET s2 == save_url([self EXCEPT !.output_dir = @ \cup {File(content_hash, t, net)},
                                                 !.requests = 1],
                                    content_hash, url2, io)
                 IN [s2 EXCEPT !.downloaded_count = @ + 1, !.outcome = "Downloaded"]

\* the URL run() passes to _download_image for an item ("" if it passes none)
item_url(item) ==
    IF ~IsDict(item) THEN ""
    ELSE IF FirstField(item, 1) = 0 THEN ""
         ELSE item.f[image_fields[FirstField(item, 1)]].x

\* the body of the item loop of run() (lines 371-382)
process_item(self, item, net, io, t) ==
    IF ~IsDict(item) THEN [self EXCEPT !.outcome = "ItemError"]
    ELSE IF FirstField(item, 1) = 0 THEN [self EXCEPT !.outcome = "NoUrl"]
         ELSE download_image(self, item_url(item), net, io, t)

\* the variables only splash_downloader.py uses
SD_vars == << endpoints, api_log, bodies, splash_list, url_set, url_file, success,
             load_read >>

\* history of the bodies of one execution: "none" before the first response,
\* "garbage" while every response was a 200 whose body holds no JSON at all,
\* "wrapped" while every body was ill-formed and some held an embedded JSON
\* object, "other" as soon as anything else was received
body_class(seen, response) ==
    LET this == IF response.net = "ok" /\ response.status = 200
                   /\ response.text.k \in {"garbage", "wrapped"}
                THEN response.text.k ELSE "other"
    IN CASE seen = "none"    -> this
         [] seen = "other"   -> "other"
         [] this = "other"   -> "other"
         [] seen = "wrapped" -> "wrapped"
         [] OTHER            -> this

SD_Shuffle_clear ==
    /\ prog = "splash" /\ pc = "start"
    /\ endpoints' \in Shuffles
    /\ api_log' = <<>>
    /\ pc' = "fetch_list"
    /\ url_set' = {}
    /\ UNCHANGED << prog, now, api_resp, bodies, splash_list, item_idx, url_file,
                    output_dir, downloaded_count, skipped_count, failed_count, success,
                    last, handled, prev_handled, got, load_read, GAS_vars, WP_vars >>

\* run() enters _fetch_splash_list and shuffles the endpoints
SD_Shuffle ==
    /\ prog = "splash" /\ pc = "start"
    /\ endpoints' \in Shuffles
    /\ api_log' = <<>>
    /\ pc' = "fetch_list"
    /\ UNCHANGED << prog, now, api_resp, bodies, splash_list, item_idx, url_set, url_file,
                    output_dir, downloaded_count, skipped_count, failed_count, success,
                    last, handled, prev_handled, got, load_read, GAS_vars, WP_vars >>

\* one iteration of the endpoint loop, and what run() does when the loop ends
SD_TryEndpoint ==
    /\ prog = "splash" /\ pc = "fetch_list"
    /\ \E response \in ApiResponses :
         LET res == try_endpoint(response)
             log == Append(api_log, endpoints[Len(api_log) + 1])
         IN /\ api_resp' = [response EXCEPT !.url = endpoints[Len(api_log) + 1]]
            /\ bodies' = body_class(bodies, response)
            /\ CASE res.r = "continue" /\ Len(log) < Len(endpoints) ->
                      /\ pc' = "fetch_list"
                      /\ api_log' = log
                      /\ UNCHANGED << endpoints, splash_list, item_idx, success >>
                 [] res.r = "continue" /\ Len(log) = Len(endpoints) ->
                      \* return None: run() returns False
                      /\ pc' = "done" /\ success' = "False"
                      /\ endpoints' = <<>> /\ api_log' = <<>>
                      /\ UNCHANGED << splash_list, item_idx >>
                 [] res.r = "raise" ->
                      \* caught by the outer handler of run()
                      /\ pc' = "done" /\ success' = "False"
                      /\ endpoints' = <<>> /\ api_log' = <<>>
                      /\ UNCHANGED << splash_list, item_idx >>
                 [] res.r = "return" ->
                      /\ splash_list' = res.items
                      /\ item_idx' = 1
                      /\ endpoints' = <<>> /\ api_log' = <<>>
                      /\ IF res.items = <<>>
                         THEN pc' = "done" /\ success' = "True"
                         ELSE pc' = "items" /\ UNCHANGED success
    /\ UNCHANGED << prog, now, url_set, url_file, output_dir,
                    downloaded_count, skipped_count, failed_count, last, handled,
                    prev_handled, got, load_read, GAS_vars, WP_vars >>

\* one iteration of the item loop of run()
SD_ProcessItem ==
    /\ prog = "splash" /\ pc = "items"
    /\ now < MaxClock
    /\ \E net \in Contents \cup {"err"}, io \in BOOLEAN, ctype \in ContentTypes :
         LET item == splash_list[item_idx]
             self == process_item(Self, item, net, io, now)
         IN /\ url_set' = self.url_set
            /\ url_file' = self.url_file
            /\ output_dir' = self.output_dir
            /\ downloaded_count' = self.downloaded_count
            /\ skipped_count' = self.skipped_count
            /\ failed_count' = self.failed_count
            /\ last' = [url |-> item_url(item), outcome |-> self.outcome,
                        requests |-> self.requests, saved |-> self.saved,
                        ctype |-> IF self.requests = 1 /\ net \in Contents
                                  THEN ctype ELSE ""]
            /\ handled' = IF self.outcome \in {"Downloaded", "SkippedDuplicateContent"}
                             /\ self.saved
                          THEN handled \cup {[url |-> item_url(item), hash |-> sha256(net)]}
                          ELSE handled
            /\ got' = IF self.outcome = "Downloaded" THEN got \cup {item_url(item)} ELSE got
    /\ now' = now + 1
    /\ item_idx' = item_idx + 1
    /\ api_resp' = NoResp /\ bodies' = "none"
    /\ IF item_idx = Len(splash_list)
       THEN pc' = "done" /\ success' = "True"
       ELSE pc' = "items" /\ UNCHANGED success
    /\ UNCHANGED << prog, endpoints, api_log, splash_list, prev_handled, load_read,
                    GAS_vars, WP_vars >>

\* main: sys.exit(0 if success else 1) (line 426)
exit_status(result) == IF result = "True" THEN "0" ELSE "1"

\* the script is started again: __init__ of a new process (lines 54-87)
SD_Restart ==
    /\ prog = "splash" /\ pc = "done"
    /\ pc' = "start"
    /\ downloaded_count' = 0 /\ skipped_count' = 0 /\ failed_count' = 0
    /\ url_set' = load_url_set(url_file, Len(url_file))
    /\ load_read' = Len(url_file)
    /\ endpoints' = <<>> /\ api_log' = <<>> /\ api_resp' = NoResp /\ bodies' = "none"
    /\ splash_list' = <<>> /\ item_idx' = 1
    /\ success' = "none"
    /\ last' = NoLast
    /\ prev_handled' = handled /\ got' = {}
    /\ UNCHANGED << prog, now, url_file, output_dir, handled, GAS_vars, WP_vars >>

(***************************************************************************)
(* get_app_splash.py: SplashDownloader.                                     *)
(***************************************************************************)
GAS_MAX_RETRIES == 3
GAS_RETRY_DELAY == 2

\* records of the brand list: every record carries "id" and "thumb"
RecApp1 == JObj([k \in {"id", "thumb"} |-> IF k = "id" THEN JNum(1) ELSE JStr(U1)])
RecApp2 == JObj([k \in {"id", "thumb"} |-> IF k = "id" THEN JNum(2) ELSE JStr(U2)])
AppLists == { <<RecApp1>>, <<RecApp1, RecApp2>>, <<RecApp2, RecApp1>>, <<RecApp1, RecThumb2>> }

AppResponses ==
    { NetError,
      [net |-> "ok", url |-> "", status |-> 500, ctype |-> "text/html",
       text |-> [k |-> "garbage", shape |-> "", recs |-> <<>>]] }
    \cup { [net |-> "ok", url |-> "", status |-> 200, ctype |-> "application/json",
            text |-> [k |-> "json", shape |-> "data.list", recs |-> r]] : r \in AppLists }
    \cup { [net |-> "ok", url |-> "", status |-> 200, ctype |-> "application/json",
            text |-> [k |-> "json", shape |-> s, recs |-> <<>>]] :
              s \in {"empty", "noshape", "datanull", "error"} }
    \cup { [net |-> "ok", url |-> "", status |-> 200, ctype |-> "application/json",
            text |-> [k |-> "json", shape |-> "toplevel", recs |-> <<RecApp1>>]] }
    \cup { [net |-> "ok", url |-> "", status |-> 200, ctype |-> "text/html",
            text |-> [k |-> kk, shape |-> "", recs |-> <<>>]] : kk \in {"empty", "garbage"} }
    \cup { [net |-> "ok", url |-> "", status |-> 200, ctype |-> "text/html",
            text |-> [k |-> "wrapped", shape |-> "data.list", recs |-> <<RecApp1>>]] }

NoReport == [total_count |-> 0, success_count |-> 0, skipped_count |-> 0, failed_count |-> 0]

\* _get_valid_filename: "{file_id}{extension}" (every modelled URL ends in .jpg)
get_valid_filename(url, file_id) == ToString(file_id) \o ".jpg"

\* the SplashItem objects built from a list of records; "raise" is the
\* KeyError / TypeError of item["thumb"], item["id"]
RECURSIVE to_splash_items(_)
to_splash_items(recs) ==
    IF recs = <<>> THEN [r |-> "list", items |-> <<>>]
    ELSE LET item == Head(recs) IN
         IF ~IsDict(item) \/ ~({"thumb", "id"} \subseteq DOMAIN item.f)
         THEN [r |-> "raise", items |-> <<>>]
         ELSE LET rest == to_splash_items(Tail(recs)) IN
              IF rest.r = "raise" THEN rest
              ELSE [r |-> "list",
                    items |-> << [id |-> item.f["id"].n, url |-> item.f["thumb"].x,
                                  filename |-> get_valid_filename(item.f["thumb"].x,
                                                                  item.f["id"].n)] >>
                              \o rest.items]

\* fetch_splash_list: "raise" when the method raises, else the SplashItems
fetch_splash_list(response) ==
    IF response.net # "ok" \/ response.status # 200 THEN [r |-> "raise", items |-> <<>>]
    ELSE IF response.text.k = "empty" THEN [r |-> "raise", items |-> <<>>]
    ELSE IF response.text.k # "json" THEN [r |-> "raise", items |-> <<>>]
    ELSE LET api_data == MkPayload(response.text.shape, response.text.recs) IN
         IF ~IsDict(api_data) THEN [r |-> "raise", items |-> <<>>]
         ELSE LET code == Get(api_data, "code", JNull) IN
              IF ~(code.t = "num" /\ code.n = 0) THEN [r |-> "raise", items |-> <<>>]
              ELSE LET data == Get(api_data, "data", EmptyDict) IN
                   IF ~IsDict(data) THEN [r |-> "raise", items |-> <<>>]
                   ELSE LET list == Get(data, "list", JList(<<>>)) IN
                        IF ~Truthy(list) THEN [r |-> "list", items |-> <<>>]
                        ELSE to_splash_items(list.s)

\* os.path.exists(file_path)
exists(dir, filename) == \E f \in dir : f.name = filename
\* open(file_path, "wb") followed by the chunks written before the stream ended
write_file(dir, filename, bytes) ==
    { f \in dir : f.name # filename } \cup { [name |-> filename, bytes |-> bytes] }

\* run() calls fetch_splash_list (lines 145-209, 353-368)
GAS_Fetch ==
    /\ prog = "app" /\ pc = "start"
    /\ \E response \in AppResponses :
         LET res == fetch_splash_list(response) IN
         /\ api_resp' = response
         /\ CASE res.r = "raise" ->
                   /\ pc' = "done" /\ exit_code' = "1"
                   /\ UNCHANGED << splash_items, report_data >>
              [] res.r = "list" /\ res.items = <<>> ->
                   \* download_all_splash returns at once; metadata and report are saved
                   /\ pc' = "done" /\ exit_code' = "0"
                   /\ UNCHANGED << splash_items, report_data >>
              [] res.r = "list" /\ res.items # <<>> ->
                   /\ pc' = "download" /\ UNCHANGED exit_code
                   /\ splash_items' = res.items
                   /\ report_data' = [report_data EXCEPT !.total_count = Len(res.items)]
    /\ item_idx' = 1 /\ attempt' = 1 /\ broke' = FALSE /\ slept' = <<>>
    /\ UNCHANGED << prog, now, output_dir, downloaded_count, skipped_count, failed_count,
                    last, handled, prev_handled, got, download_dir, SD_vars, WP_vars >>

\* time.sleep(RETRY_DELAY) after failed attempt number k (lines 260-261)
gas_delay(k) == GAS_RETRY_DELAY

\* download_all_splash: the exists check and one attempt of the retry loop
\* for the current item (lines 219-272); net is "req_fail" when the request
\* raises, "stream_fail" when the body breaks off after the file was opened,
\* otherwise the body received
GAS_Attempt ==
    /\ prog = "app" /\ pc = "download"
    /\ now < MaxClock
    /\ LET item == splash_items[item_idx]
           advance == IF item_idx = Len(splash_items)
                      THEN pc' = "done" /\ exit_code' = "0"
                      ELSE pc' = "download" /\ UNCHANGED exit_code
       IN IF attempt = 1 /\ exists(download_dir, item.filename)
          THEN /\ report_data' = [report_data EXCEPT !.skipped_count = @ + 1]
               /\ last' = [url |-> item.url, outcome |-> "Skipped", requests |-> 0,
                           saved |-> FALSE, ctype |-> ""]
               /\ item_idx' = item_idx + 1 /\ attempt' = 1 /\ now' = now + 1
               /\ advance
               /\ slept' = <<>>
               /\ UNCHANGED << download_dir, handled, got, broke >>
          ELSE \E net \in Contents \cup {"req_fail", "stream_fail"}, ctype \in ContentTypes :
               CASE net \in Contents ->
                      /\ download_dir' = write_file(download_dir, item.filename, net)
                      /\ report_data' = [report_data EXCEPT !.success_count = @ + 1]
                      /\ last' = [url |-> item.url, outcome |-> "Downloaded",
                                  requests |-> attempt, saved |-> FALSE, ctype |-> ctype]
                      /\ handled' = handled \cup {[url |-> item.url, hash |-> sha256(net)]}
                      /\ got' = got \cup {item.url}
                      /\ item_idx' = item_idx + 1 /\ attempt' = 1 /\ now' = now + 1
                      /\ broke' = FALSE /\ slept' = <<>>
                      /\ advance
                 [] net \notin Contents /\ attempt < GAS_MAX_RETRIES ->
                      \* time.sleep(RETRY_DELAY), next attempt
                      /\ download_dir' = IF net = "stream_fail"
                                         THEN write_file(download_dir, item.filename, "partial")
                                         ELSE download_dir
                      /\ attempt' = attempt + 1
                      /\ slept' = Append(slept, gas_delay(attempt))
                      /\ broke' = (broke \/ net = "stream_fail")
                      /\ UNCHANGED << report_data, last, handled, got, item_idx, now, pc,
                                      exit_code >>
                 [] net \notin Contents /\ attempt = GAS_MAX_RETRIES ->
                      \* item.status = "failed", then str(e) raises UnboundLocalError
                      \* (e is unbound after its except clause); run() returns 1
                      /\ download_dir' = IF net = "stream_fail"
                                         THEN write_file(download_dir, item.filename, "partial")
                                         ELSE download_dir
                      /\ last' = [url |-> item.url, outcome |-> "Failed",
                                  requests |-> attempt, saved |-> FALSE, ctype |-> ""]
                      /\ pc' = "done" /\ exit_code' = "1"
                      /\ now' = now + 1
                      /\ broke' = (broke \/ net = "stream_fail")
                      /\ UNCHANGED << report_data, handled, got, item_idx, attempt, slept >>
    /\ api_resp' = NoResp
    /\ UNCHANGED << prog, output_dir, downloaded_count, skipped_count, failed_count,
                    prev_handled, splash_items, SD_vars, WP_vars >>

\* the script is started again: __init__ of a new process (lines 81-98)
GAS_Restart ==
    /\ prog = "app" /\ pc = "done"
    /\ pc' = "start"
    /\ splash_items' = <<>> /\ item_idx' = 1 /\ attempt' = 1
    /\ report_data' = NoReport
    /\ exit_code' = "none"
    /\ api_resp' = NoResp
    /\ last' = NoLast
    /\ prev_handled' = handled /\ got' = {} /\ broke' = FALSE /\ slept' = <<>>
    /\ UNCHANGED << prog, now, output_dir, downloaded_count, skipped_count, failed_count,
                    handled, download_dir, SD_vars, WP_vars >>

(***************************************************************************)
(* getwallpaper.py: WallpaperDownloader.                                    *)
(***************************************************************************)
DEFAULT_PAGE_SIZE == 45
WP_MAX_RETRIES == 5
WP_RETRY_DELAY == 2
MAX_CONCURRENT_DOWNLOADS == 8
\* what get_total_albums returns when the first page has albums
TotalAlbums == 1000
\* math.ceil(total_albums / self.page_size)
pages == (TotalAlbums + DEFAULT_PAGE_SIZE - 1) \div DEFAULT_PAGE_SIZE

\* a third picture URL whose file name is that of U1
U3 == "https://i1.hdslb.com/bfs/a.jpg"
\* os.path.basename(urlparse(url).path)
image_name(url) == IF url = U2 THEN "b.jpg" ELSE "a.jpg"

\* the picture URLs whose download can fail; the others always deliver
FlakyUrls == {U1}
\* how a request for url can end, and how the writing of its body can end
RequestEnds(url) == Contents \cup (IF url \in FlakyUrls THEN {"req_fail"} ELSE {})
WriteEnds(url) == {"ok"} \cup (IF url \in FlakyUrls THEN {"stream_fail", "io_fail"} ELSE {})

\* albums of the feed: upload time and picture URLs
Albums ==
    { [ctime |-> 1, pictures |-> <<U1>>],
      [ctime |-> 1, pictures |-> <<U1, U2>>],
      [ctime |-> 2, pictures |-> <<U2, U2>>],
      [ctime |-> 2, pictures |-> <<>>] }
\* what _api_request gives run(): ok is FALSE for the {} it returns after all
\* retries failed, otherwise items are the albums of data.items
PageResults ==
    { [ok |-> FALSE, items |-> <<>>], [ok |-> TRUE, items |-> <<>>] }
    \cup { [ok |-> TRUE, items |-> <<a>>] : a \in Albums }

\* datetime.utcfromtimestamp(ctime).strftime("%Y%m%d%H%M%S")
album_name(album) == "1970010100000" \o ToString(album.ctime)

\* the lines __init__ writes to URLS_FILE (lines 75-77)
UrlsHeader ==
    << [k |-> "comment", album |-> "", image |-> "", url |-> "# Wallpaper URL Record"],
       [k |-> "comment", album |-> "", image |-> "", url |-> "# Generated at"],
       [k |-> "blank", album |-> "", image |-> "", url |-> ""] >>
\* the line _download_image appends (line 194)
UrlsLine(album, image, url) == [k |-> "entry", album |-> album, image |-> image, url |-> url]

\* the task executor.submit(self._download_image, url, album_path) creates
Task(url, album) ==
    [ url |-> url, album |-> album, name |-> album \o "/" \o image_name(url),
      tpc |-> "check", attempt |-> 0, requests |-> 0, content |-> "",
      outcome |-> "none", broke |-> FALSE, reg |-> 0, slept |-> <<>> ]

\* the task reaches `self.<outcome>_count += 1` (lines 171, 196, 203): the
\* statement reads the attribute and writes it back in two steps
count(t, outcome) == [t EXCEPT !.tpc = "load", !.outcome = outcome]

\* time.sleep(RETRY_DELAY * (attempt + 1)) after the failed attempt with
\* loop index k, counted from 0 (line 201)
wp_delay(k) == WP_RETRY_DELAY * (k + 1)

\* the except clause of the retry loop (lines 199-204): the task after a
\* failed attempt
retry(t) ==
    LET t2 == [t EXCEPT !.attempt = @ + 1, !.slept = Append(@, wp_delay(t.attempt))] IN
    IF t2.attempt < WP_MAX_RETRIES
    THEN [t2 EXCEPT !.tpc = "request"]
    ELSE count(t2, "Failed")

max_workers_all(n) == n

\* max_workers=min(MAX_CONCURRENT_DOWNLOADS, len(image_urls)) (line 263)
max_workers(n) == IF n < MAX_CONCURRENT_DOWNLOADS THEN n ELSE MAX_CONCURRENT_DOWNLOADS

\* the submitted tasks a pool thread is running: a task is taken from the
\* queue of the executor with its first step and leaves the thread at "end"
InFlight(ts) == { i \in 1..Len(ts) : ts[i].tpc \notin {"check", "end"} }

next_page_always(p) == "page"

\* the next page of the loop, or the end of run()
next_page(p) == IF p + 1 < pages THEN "page" ELSE "done"

\* _api_request(page) as the response its caller sees: the page is asked for
\* as page_num = page + 1 (line 102)
page_response(p, api_data) ==
    [ net |-> IF api_data.ok THEN "ok" ELSE "error",
      url |-> ToString(p + 1),
      status |-> IF api_data.ok THEN 200 ELSE 0,
      ctype |-> "",
      text |-> [k |-> IF api_data.ok THEN "json" ELSE "empty", shape |-> "",
                recs |-> api_data.items] ]

\* get_total_albums (lines 278-293) and the page computation of run()
WP_GetTotalAlbums ==
    /\ prog = "wall" /\ pc = "start"
    /\ \E api_data \in PageResults :
         /\ api_resp' = page_response(0, api_data)
         /\ IF ~api_data.ok \/ api_data.items = <<>>
            THEN pc' = "done"
            ELSE pc' = "page"
    /\ page' = 0
    /\ UNCHANGED << prog, now, item_idx, output_dir, downloaded_count,
                    skipped_count, failed_count, last, handled, prev_handled, got,
                    urls_file, album_queue, tasks, pool_base, SD_vars, GAS_vars,
                    API_vars >>

\* one iteration of the page loop up to the album loop (lines 309-323)
WP_Page ==
    /\ prog = "wall" /\ pc = "page"
    /\ now < MaxClock
    /\ now' = now + 1
    /\ \E api_data \in PageResults :
         /\ api_resp' = page_response(page, api_data)
         /\ CASE ~api_data.ok ->
                   /\ page' = page + 1 /\ pc' = next_page(page)
                   /\ UNCHANGED album_queue
              [] api_data.ok /\ api_data.items = <<>> ->
                   /\ pc' = "done"
                   /\ UNCHANGED << page, album_queue >>
              [] api_data.ok /\ api_data.items # <<>> ->
                   /\ album_queue' = api_data.items
                   /\ pc' = "album"
                   /\ UNCHANGED page
    /\ UNCHANGED << prog, item_idx, output_dir, downloaded_count,
                    skipped_count, failed_count, last, handled, prev_handled, got,
                    urls_file, tasks, pool_base, SD_vars, GAS_vars,
                    API_vars >>

\* _process_album up to the submission of the downloads (lines 206-268)
WP_ProcessAlbum ==
    /\ prog = "wall" /\ pc = "album"
    /\ LET album == Head(album_queue)
           image_urls == album.pictures
       IN IF image_urls = <<>>
          THEN /\ album_queue' = Tail(album_queue)
               /\ tasks' = <<>>
               /\ UNCHANGED pool_base
               /\ IF Tail(album_queue) = <<>>
                  THEN page' = page + 1 /\ pc' = next_page(page)
                  ELSE pc' = "album" /\ UNCHANGED page
          ELSE /\ tasks' = [i \in 1..Len(image_urls) |-> Task(image_urls[i], album_name(album))]
               /\ pool_base' = downloaded_count + skipped_count + failed_count
               /\ pc' = "pool"
               /\ UNCHANGED << album_queue, page >>
    /\ UNCHANGED << prog, now, api_resp, item_idx, output_dir, downloaded_count,
                    skipped_count, failed_count, last, handled, prev_handled, got,
                    urls_file, SD_vars, GAS_vars,
                    API_vars >>

\* one step of a pool thread running _download_image (lines 164-204)
WP_Download(i) ==
    /\ prog = "wall" /\ pc = "pool"
    /\ i \in 1..Len(tasks)
    /\ tasks[i].tpc # "end"
    /\ LET t == tasks[i] IN
       CASE t.tpc = "check" ->
              \* a thread of the pool is free and takes the task
              /\ Cardinality(InFlight(tasks)) < max_workers(Len(tasks))
              /\ tasks' = [tasks EXCEPT ![i] = IF exists(output_dir, t.name)
                                               THEN count(t, "Skipped")
                                               ELSE [t EXCEPT !.tpc = "request"]]
              /\ UNCHANGED << output_dir, urls_file, downloaded_count, skipped_count,
                              failed_count, handled, got >>
         [] t.tpc = "request" ->
              \E net \in RequestEnds(t.url) :
                IF net = "req_fail"
                THEN /\ tasks' = [tasks EXCEPT ![i] = retry([t EXCEPT !.requests = @ + 1])]
                     /\ UNCHANGED << output_dir, urls_file, downloaded_count, skipped_count,
                                     failed_count, handled, got >>
                ELSE \* the response arrived; open(save_path, "wb") truncates the file
                     /\ tasks' = [tasks EXCEPT ![i] = [t EXCEPT !.requests = @ + 1,
                                                                !.tpc = "write",
                                                                !.content = net]]
                     /\ output_dir' = write_file(output_dir, t.name, "partial")
                     /\ UNCHANGED << urls_file, downloaded_count, skipped_count, failed_count,
                                     handled, got >>
         [] t.tpc = "write" ->
              \E end \in WriteEnds(t.url) :
               (CASE end = "ok" ->
                       \* all chunks written and the URL recorded
                       /\ output_dir' = write_file(output_dir, t.name, t.content)
                       /\ urls_file' = Append(urls_file,
                                              UrlsLine(t.album, image_name(t.url), t.url))
                       /\ tasks' = [tasks EXCEPT ![i] = count(t, "Downloaded")]
                       /\ handled' = handled \cup {[url |-> t.url, hash |-> sha256(t.content)]}
                       /\ got' = got \cup {t.url}
                       /\ UNCHANGED << downloaded_count, skipped_count, failed_count >>
                  [] end = "stream_fail" ->
                       \* iter_content raised: the file keeps what was written
                       /\ tasks' = [tasks EXCEPT ![i] = retry([t EXCEPT !.broke = TRUE])]
                       /\ UNCHANGED << output_dir, urls_file, downloaded_count, skipped_count,
                                       failed_count, handled, got >>
                  [] end = "io_fail" ->
                       \* the file is complete but appending to URLS_FILE raised
                       /\ output_dir' = write_file(output_dir, t.name, t.content)
                       /\ tasks' = [tasks EXCEPT ![i] = retry([t EXCEPT !.broke = TRUE])]
                       /\ UNCHANGED << urls_file, downloaded_count, skipped_count,
                                       failed_count, handled, got >>)
         [] t.tpc = "load" ->
              \* the read of `self.<outcome>_count += 1`
              /\ tasks' = [tasks EXCEPT ![i] =
                             [t EXCEPT !.tpc = "store",
                                       !.reg = CASE t.outcome = "Skipped" -> skipped_count
                                                 [] t.outcome = "Downloaded" -> downloaded_count
                                                 [] t.outcome = "Failed" -> failed_count]]
              /\ UNCHANGED << output_dir, urls_file, downloaded_count, skipped_count,
                              failed_count, handled, got >>
         [] t.tpc = "store" ->
              \* the write of `self.<outcome>_count += 1`
              /\ tasks' = [tasks EXCEPT ![i] = [t EXCEPT !.tpc = "end", !.reg = 0]]
              /\ skipped_count' = IF t.outcome = "Skipped" THEN t.reg + 1 ELSE skipped_count
              /\ downloaded_count' = IF t.outcome = "Downloaded" THEN t.reg + 1
                                     ELSE downloaded_count
              /\ failed_count' = IF t.outcome = "Failed" THEN t.reg + 1 ELSE failed_count
              /\ UNCHANGED << output_dir, urls_file, handled, got >>
    /\ UNCHANGED << prog, now, pc, api_resp, item_idx, last, prev_handled, page,
                    album_queue, pool_base, SD_vars, GAS_vars,
                    API_vars >>

\* the pool is drained: _process_album returns, run() goes on (lines 270-330)
WP_AlbumDone ==
    /\ prog = "wall" /\ pc = "pool"
    /\ \A i \in 1..Len(tasks) : tasks[i].tpc = "end"
    /\ album_queue' = Tail(album_queue)
    /\ tasks' = <<>>
    /\ IF Tail(album_queue) = <<>>
       THEN page' = page + 1 /\ pc' = next_page(page)
       ELSE pc' = "album" /\ UNCHANGED page
    /\ UNCHANGED << prog, now, api_resp, item_idx, output_dir, downloaded_count,
                    skipped_count, failed_count, last, handled, prev_handled, got,
                    urls_file, pool_base, SD_vars, GAS_vars,
                    API_vars >>

\* the script is started again: __init__ of a new process (lines 61-80)
WP_Restart ==
    /\ prog = "wall" /\ pc = "done"
    /\ pc' = "start"
    /\ downloaded_count' = 0 /\ skipped_count' = 0 /\ failed_count' = 0
    /\ urls_file' = UrlsHeader
    /\ page' = 0 /\ album_queue' = <<>> /\ tasks' = <<>> /\ pool_base' = 0
    /\ prev_handled' = handled /\ got' = {}
    /\ api_resp' = NoResp
    /\ UNCHANGED << prog, now, item_idx, output_dir, last, handled,
                    SD_vars, GAS_vars,
                    API_vars >>

(***************************************************************************)
(* The specification.                                                       *)
(***************************************************************************)
Init ==
    /\ prog \in {"splash", "app", "wall"}
    /\ now = 1
    /\ pc = "start"
    /\ endpoints = <<>> /\ api_log = <<>> /\ api_resp = NoResp /\ bodies = "none"
    /\ splash_list = <<>> /\ item_idx = 1
    /\ url_set = {} /\ url_file = <<>> /\ output_dir = {}
    /\ downloaded_count = 0 /\ skipped_count = 0 /\ failed_count = 0
    /\ success = "none"
    /\ last = NoLast
    /\ handled = {} /\ prev_handled = {}
    /\ splash_items = <<>> /\ attempt = 1 /\ report_data = NoReport
    /\ download_dir = {} /\ exit_code = "none" /\ broke = FALSE /\ slept = <<>>
    /\ urls_file = IF prog = "wall" THEN UrlsHeader ELSE <<>>
    /\ page = 0 /\ album_queue = <<>> /\ tasks = <<>> /\ pool_base = 0
    /\ got = {} /\ load_read = 0
    /\ api_attempt = 0 /\ api_trail = <<>>

Next ==
    \/ SD_Shuffle
    \/ SD_TryEndpoint
    \/ SD_ProcessItem
    \/ SD_Restart
    \/ GAS_Fetch
    \/ GAS_Attempt
    \/ GAS_Restart
    \/ WP_GetTotalAlbums
    \/ WP_Page
    \/ WP_ProcessAlbum
    \/ \E i \in 1..MAX_CONCURRENT_DOWNLOADS : WP_Download(i)
    \/ WP_AlbumDone
    \/ WP_Restart

Spec == Init /\ [][Next]_vars

(***************************************************************************)
(* The URL file of splash_downloader.py on its own: _load_url_set and       *)
(* _save_url applied to files an earlier version or an earlier run left.    *)
(***************************************************************************)
\* the lines such a file can hold: lines written by _save_url, bare URLs of
\* the old format (one of them with white space around it, one with a "|"
\* in its path) and a blank line
LegacyLines ==
    { Line(sha256("P1"), U1), Line(sha256("P2"), UBar),
      <<U2>>, <<" ", U1, " ">>, <<UBarHead, "|", UBarTail>>, <<" ">> }

\* the URLs _save_url is called with
SavedUrls == { bust(U1, 1), UBar }

\* the files found: up to two such lines
LegacyFiles ==
    { <<>> } \cup { <<l>> : l \in LegacyLines }
             \cup { <<l, m>> : l \in LegacyLines, m \in LegacyLines }

\* __init__ (lines 54-87) finds a URL file
LedgerInit ==
    /\ prog = "splash"
    /\ now = 1
    /\ pc = "ledger"
    /\ endpoints = <<>> /\ api_log = <<>> /\ api_resp = NoResp /\ bodies = "none"
    /\ splash_list = <<>> /\ item_idx = 1
    /\ url_set = {} /\ url_file \in LegacyFiles /\ output_dir = {}
    /\ downloaded_count = 0 /\ skipped_count = 0 /\ failed_count = 0
    /\ success = "none"
    /\ last = NoLast
    /\ handled = {} /\ prev_handled = {}
    /\ splash_items = <<>> /\ attempt = 1 /\ report_data = NoReport
    /\ download_dir = {} /\ exit_code = "none" /\ broke = FALSE /\ slept = <<>>
    /\ urls_file = <<>>
    /\ page = 0 /\ album_queue = <<>> /\ tasks = <<>> /\ pool_base = 0
    /\ got = {} /\ load_read = 0
    /\ api_attempt = 0 /\ api_trail = <<>>

\* _load_url_set of a new process
LF_Load ==
    /\ prog = "splash" /\ pc = "ledger"
    /\ \E read \in 0..Len(url_file) :
         /\ url_set' = load_url_set(url_file, read)
         /\ load_read' = read
    /\ last' = NoLast
    /\ UNCHANGED << prog, now, pc, endpoints, api_log, api_resp, bodies, splash_list,
                    item_idx, url_file, output_dir, downloaded_count, skipped_count,
                    failed_count, success, handled, prev_handled, got, GAS_vars, WP_vars >>

\* _save_url
LF_Save ==
    /\ prog = "splash" /\ pc = "ledger"
    /\ Len(url_file) < MaxLines
    /\ \E c \in Contents, url \in SavedUrls, io \in BOOLEAN :
         LET self == save_url(Self, sha256(c), url, io)
         IN /\ url_file' = self.url_file
            /\ url_set' = self.url_set
            /\ last' = [NoLast EXCEPT !.url = url, !.saved = self.saved]
    /\ UNCHANGED << prog, now, pc, endpoints, api_log, api_resp, bodies, splash_list,
                    item_idx, output_dir, downloaded_count, skipped_count,
                    failed_count, success, handled, prev_handled, got, load_read,
                    GAS_vars, WP_vars >>

LedgerNext == LF_Load \/ LF_Save

LedgerSpec == LedgerInit /\ [][LedgerNext]_vars

(***************************************************************************)
(* The thread pool of getwallpaper.py on its own: _process_album with an    *)
(* album of more pictures than the pool has threads, while the picture      *)
(* server does not answer.  What a download does statement by statement is  *)
(* examined in Spec; here a task that was taken by a thread runs to its end *)
(* in one step.                                                             *)
(***************************************************************************)
\* an album of PoolPictures pictures
PoolAlbum == [ctime |-> 3, pictures |-> [i \in 1..PoolPictures |-> U1]]

\* run() has received a page with the album, alone or followed by another
PoolInit ==
    /\ prog = "wall"
    /\ now = 1
    /\ pc = "album"
    /\ endpoints = <<>> /\ api_log = <<>> /\ api_resp = NoResp /\ bodies = "none"
    /\ splash_list = <<>> /\ item_idx = 1
    /\ url_set = {} /\ url_file = <<>> /\ output_dir = {}
    /\ downloaded_count = 0 /\ skipped_count = 0 /\ failed_count = 0
    /\ success = "none"
    /\ last = NoLast
    /\ handled = {} /\ prev_handled = {}
    /\ splash_items = <<>> /\ attempt = 1 /\ report_data = NoReport
    /\ download_dir = {} /\ exit_code = "none" /\ broke = FALSE /\ slept = <<>>
    /\ urls_file = UrlsHeader
    /\ page = 0 /\ tasks = <<>> /\ pool_base = 0
    /\ album_queue \in { <<PoolAlbum>>, <<PoolAlbum, [ctime |-> 1, pictures |-> <<U1, U1>>]>> }
    /\ got = {} /\ load_read = 0
    /\ api_attempt = 0 /\ api_trail = <<>>

\* a free thread of the pool takes a task: the first step of _download_image
Pool_Start(i) == i \in 1..Len(tasks) /\ tasks[i].tpc = "check" /\ WP_Download(i)

\* the rest of _download_image of a task none of whose requests is
\* answered, in one step: MAX_RETRIES attempts, then failed_count += 1
Pool_Finish(i) ==
    /\ prog = "wall" /\ pc = "pool"
    /\ i \in 1..Len(tasks)
    /\ tasks[i].tpc = "request"
    /\ tasks' = [tasks EXCEPT ![i] =
                   [@ EXCEPT !.tpc = "end", !.outcome = "Failed",
                             !.attempt = WP_MAX_RETRIES, !.requests = WP_MAX_RETRIES,
                             !.slept = [k \in 1..WP_MAX_RETRIES |-> wp_delay(k - 1)]]]
    /\ failed_count' = failed_count + 1
    /\ UNCHANGED << prog, now, pc, api_resp, item_idx, output_dir, downloaded_count,
                    skipped_count, last, handled, prev_handled, got, urls_file, page,
                    album_queue, pool_base, SD_vars, GAS_vars,
                    API_vars >>

PoolNext ==
    \/ WP_ProcessAlbum
    \/ \E i \in 1..PoolPictures : Pool_Start(i)
    \/ \E i \in 1..PoolPictures : Pool_Finish(i)
    \/ WP_AlbumDone

PoolSpec == PoolInit /\ [][PoolNext]_vars

(***************************************************************************)
(* The page loop of getwallpaper.py on its own: run() on a feed whose       *)
(* albums hold no pictures, with time enough to go through all its pages.   *)
(***************************************************************************)
\* the script starts; the clock leaves room for every page and one more
PageInit ==
    /\ prog = "wall"
    /\ now = MaxClock - (pages + 1)
    /\ pc = "start"
    /\ endpoints = <<>> /\ api_log = <<>> /\ api_resp = NoResp /\ bodies = "none"
    /\ splash_list = <<>> /\ item_idx = 1
    /\ url_set = {} /\ url_file = <<>> /\ output_dir = {}
    /\ downloaded_count = 0 /\ skipped_count = 0 /\ failed_count = 0
    /\ success = "none"
    /\ last = NoLast
    /\ handled = {} /\ prev_handled = {}
    /\ splash_items = <<>> /\ attempt = 1 /\ report_data = NoReport
    /\ download_dir = {} /\ exit_code = "none" /\ broke = FALSE /\ slept = <<>>
    /\ urls_file = UrlsHeader
    /\ page = 0 /\ album_queue = <<>> /\ tasks = <<>> /\ pool_base = 0
    /\ got = {} /\ load_read = 0
    /\ api_attempt = 0 /\ api_trail = <<>>

\* get_total_albums, on that feed
Page_GetTotalAlbums ==
    /\ WP_GetTotalAlbums
    /\ \A i \in 1..Len(api_resp'.text.recs) : api_resp'.text.recs[i].pictures = <<>>

\* one iteration of the page loop, on that feed
Page_Request ==
    /\ WP_Page
    /\ \A i \in 1..Len(api_resp'.text.recs) : api_resp'.text.recs[i].pictures = <<>>

PageNext ==
    \/ Page_GetTotalAlbums
    \/ Page_Request
    \/ WP_ProcessAlbum
    \/ WP_Restart

PageSpec == PageInit /\ [][PageNext]_vars

(***************************************************************************)
(* _api_request of getwallpaper.py on its own: the retry loop that the      *)
(* page loop above takes as one request with one result.                    *)
(***************************************************************************)
\* how an attempt can end: requests.get raises (transport error),
\* raise_for_status raises (HTTP error status), response.json() raises
\* JSONDecodeError, another exception is raised, _is_valid_response rejects
\* the data, or the data is returned
AttemptEnds == {"transport", "http", "nonjson", "unexpected", "invalid", "valid"}

\* time.sleep(RETRY_DELAY * (attempt + 1)) at the end of the loop body, with
\* loop index k counted from 0 (line 159)
api_delay(k) == WP_RETRY_DELAY * (k + 1)

\* what follows the request of the attempt with loop index k: the
\* `continue` of the JSONDecodeError handler (line 132) goes to the next
\* attempt at once, every other failure falls through to the sleep
api_after(trail, k, end) ==
    IF end \in {"valid", "nonjson"} THEN trail
    ELSE Append(trail, [e |-> "sleep", d |-> api_delay(k), end |-> end])

\* run() calls _api_request for its first page
ApiInit ==
    /\ prog = "wall"
    /\ now = 1
    /\ pc = "api"
    /\ endpoints = <<>> /\ api_log = <<>> /\ api_resp = NoResp /\ bodies = "none"
    /\ splash_list = <<>> /\ item_idx = 1
    /\ url_set = {} /\ url_file = <<>> /\ output_dir = {}
    /\ downloaded_count = 0 /\ skipped_count = 0 /\ failed_count = 0
    /\ success = "none"
    /\ last = NoLast
    /\ handled = {} /\ prev_handled = {}
    /\ splash_items = <<>> /\ attempt = 1 /\ report_data = NoReport
    /\ download_dir = {} /\ exit_code = "none" /\ broke = FALSE /\ slept = <<>>
    /\ urls_file = UrlsHeader
    /\ page = 0 /\ album_queue = <<>> /\ tasks = <<>> /\ pool_base = 0
    /\ got = {} /\ load_read = 0
    /\ api_attempt = 0 /\ api_trail = <<>>

\* one iteration of the retry loop (lines 108-159), and the return {} when
\* the loop is exhausted (lines 161-162)
Api_Attempt ==
    /\ prog = "wall" /\ pc = "api"
    /\ api_attempt < WP_MAX_RETRIES
    /\ \E end \in AttemptEnds, api_data \in {r \in PageResults : r.ok} :
         /\ api_trail' = api_after(Append(api_trail, [e |-> "request", d |-> 0, end |-> end]),
                                   api_attempt, end)
         /\ CASE end = "valid" ->
                   /\ api_resp' = page_response(page, api_data)
                   /\ pc' = "returned"
                   /\ UNCHANGED api_attempt
              [] end # "valid" /\ api_attempt + 1 < WP_MAX_RETRIES ->
                   /\ api_attempt' = api_attempt + 1
                   /\ UNCHANGED << api_resp, pc >>
              [] end # "valid" /\ api_attempt + 1 = WP_MAX_RETRIES ->
                   /\ api_attempt' = api_attempt + 1
                   /\ api_resp' = page_response(page, [ok |-> FALSE, items |-> <<>>])
                   /\ pc' = "returned"
    /\ UNCHANGED << prog, now, item_idx, output_dir, downloaded_count, skipped_count,
                    failed_count, last, handled, prev_handled, got, urls_file, page,
                    album_queue, tasks, pool_base, SD_vars, GAS_vars >>

\* run() goes on to its next page and calls _api_request again
Api_Call ==
    /\ prog = "wall" /\ pc = "returned"
    /\ page + 1 < pages
    /\ now < MaxClock
    /\ now' = now + 1
    /\ page' = page + 1
    /\ pc' = "api"
    /\ api_attempt' = 0 /\ api_trail' = <<>>
    /\ api_resp' = NoResp
    /\ UNCHANGED << prog, item_idx, output_dir, downloaded_count, skipped_count,
                    failed_count, last, handled, prev_handled, got, urls_file,
                    album_queue, tasks, pool_base, SD_vars, GAS_vars >>

ApiNext == Api_Attempt \/ Api_Call

ApiSpec == ApiInit /\ [][ApiNext]_vars

(***************************************************************************)
(* Properties.                                                              *)
(***************************************************************************)
\* the counters of the run report, whichever script keeps them
Downloaded == IF prog = "app" THEN report_data.success_count ELSE downloaded_count
Skipped == IF prog = "app" THEN report_data.skipped_count ELSE skipped_count
Failed == IF prog = "app" THEN report_data.failed_count ELSE failed_count

\* a step of the item loop of splash_downloader.py
SD_ItemStep == prog = "splash" /\ pc = "items" /\ item_idx' = item_idx + 1
\* the source URL that step fetches
SD_CurrentUrl == item_url(splash_list[item_idx])

\* C1: idempotence - a run started on the ledger and store an earlier run
\* left downloads nothing for a URL the earlier run already completed, so its
\* downloaded counter stays 0 as long as it only meets such URLs.
C1_Idempotence ==
    /\ got \cap Urls(prev_handled) = {}
    /\ (prev_handled # {} /\ got = {}) => Downloaded = 0

\* C2: once a fetch of source URL u completed as Downloaded or
\* SkippedDuplicateContent (and was recorded), every later fetch of u is
\* SkippedDuplicateURL and issues no network request.
C2_NoRefetch ==
    [][ (SD_ItemStep /\ SD_CurrentUrl \in Urls(handled))
          => (last'.outcome = "SkippedDuplicateURL" /\ last'.requests = 0) ]_vars

\* C3: two different source URLs whose downloads returned the same bytes
\* leave exactly one file with that content hash, and both source URLs are
\* recorded in the ledger.
C3_ContentDedup ==
    prog = "splash" =>
      \A f1, f2 \in handled :
        (f1.url # f2.url /\ f1.hash = f2.hash)
          => /\ Cardinality(glob(output_dir, f1.hash)) = 1
             /\ {f1.url, f2.url} \subseteq load_url_set(url_file, Len(url_file))

\* C4: a descriptor whose every request failed with a transport error is
\* requested exactly MAX_RETRIES times, is then counted in the failed counter,
\* and has no file on disk.
C4_RetryBound ==
    /\ (prog = "app" /\ last.outcome = "Failed" /\ ~broke)
         => /\ last.requests = GAS_MAX_RETRIES
            /\ report_data.failed_count >= 1
            /\ \A i \in 1..Len(splash_items) :
                 splash_items[i].url = last.url => ~exists(download_dir, splash_items[i].filename)
    /\ prog = "wall"
         => \A i \in 1..Len(tasks) :
              (tasks[i].outcome = "Failed" /\ tasks[i].tpc = "end" /\ ~tasks[i].broke)
                => (tasks[i].requests = WP_MAX_RETRIES /\ failed_count >= 1)

\* the five payload shapes of the normalizer: data.list, data a list of
\* records, data a list of lists, data an object whose first value is the
\* list, and a top-level list
FiveShapes == {"data.list", "data", "data.nested", "data.first", "list"}

\* a response the resolver is to pass over: transport error, non-200 status,
\* a body that is not well-formed JSON, or a non-success API code
PassedOver(r) ==
    \/ r.net # "ok"
    \/ r.status # 200
    \/ r.text.k # "json"
    \/ r.text.shape = "error"

\* a response carrying a valid result: success status and code, and the list
\* in one of the five shapes or explicitly empty
ValidResult(r) ==
    /\ r.net = "ok" /\ r.status = 200 /\ r.text.k = "json"
    /\ r.text.shape \in FiveShapes \cup {"empty"}

\* a success-status response with zero items
ExplicitEmpty(r) ==
    r.net = "ok" /\ r.status = 200 /\ r.text.k = "json" /\ r.text.shape = "empty"

\* a success-status response whose body is not well-formed JSON
Malformed(r) ==
    r.net = "ok" /\ r.status = 200 /\ r.text.k \in {"garbage", "wrapped"}

\* the elements of a sequence
Range(s) == { s[i] : i \in 1..Len(s) }

\* s is a prefix of t
IsPrefix(s, t) == Len(s) =< Len(t) /\ SubSeq(t, 1, Len(s)) = s

\* C5: the resolver asks the candidates one at a time in the shuffled
\* order, each at most once; a candidate answering with malformed JSON, a
\* non-200 status, a transport error or a non-success code is passed over;
\* the first candidate with a valid result ends the resolution with its list.
C5_EndpointFallback ==
    [][ (prog = "splash" /\ pc = "fetch_list")
          => /\ api_resp'.url = endpoints[Len(api_log) + 1]
             /\ api_resp'.url \notin Range(api_log)
             /\ PassedOver(api_resp')
                  => IF Len(api_log) + 1 < Len(endpoints)
                     THEN pc' = "fetch_list" /\ api_log' = Append(api_log, api_resp'.url)
                     ELSE pc' = "done" /\ success' = "False"
             /\ ValidResult(api_resp')
                  => /\ pc' # "fetch_list"
                     /\ success' # "False"
                     /\ splash_list' = api_resp'.text.recs ]_vars

Ledger == IF prog = "wall" THEN urls_file ELSE url_file

C8_ShapeTolerance ==
    (prog = "splash" /\ api_resp.net = "ok" /\ api_resp.status = 200
       /\ api_resp.text.k = "json" /\ api_resp.text.shape \in FiveShapes
       /\ api_resp.text.recs # <<>>)
      => (pc = "items" /\ success # "False" /\ splash_list = api_resp.text.recs)

\* C9: at the end of a run downloaded + skipped + failed equals the number
\* of descriptors of the resolved list.
C9_Tally ==
    /\ (prog = "splash" /\ pc = "done" /\ success = "True")
         => Downloaded + Skipped + Failed = Len(splash_list)
    /\ (prog = "app" /\ pc = "done" /\ splash_items # <<>>)
         => Downloaded + Skipped + Failed = Len(splash_items)

\* C10: a descriptor whose fetch fails or raises is counted as Failed and
\* the descriptors after it are still processed: a run that resolved a list
\* ends only after the last item.
C10_FailureIsolation ==
    /\ (prog = "app" /\ pc = "done" /\ splash_items # <<>>)
         => item_idx = Len(splash_items) + 1
    /\ (prog = "splash" /\ pc = "done" /\ splash_list # <<>>)
         => item_idx = Len(splash_list) + 1
    /\ (prog \in {"app", "splash"} /\ last.outcome \in {"Failed", "ItemError"})
         => Failed >= 1

\* C11: when a download attempt failed after it began writing the target
\* file and the descriptor ended Failed, no file of that descriptor is left;
\* hence a descriptor is skipped as present only for a completely written file.
C11_NoPartialFile ==
    /\ (prog = "app" /\ last.outcome = "Failed")
         => ~exists(download_dir, splash_items[item_idx].filename)
    /\ (prog = "app" /\ last.outcome = "Skipped")
         => \A f \in download_dir :
              f.name = splash_items[item_idx - 1].filename => f.bytes \in Contents
    /\ prog = "wall"
         => \A i \in 1..Len(tasks) :
              (/\ tasks[i].outcome = "Failed"
               /\ \A j \in 1..Len(tasks) : j # i => tasks[j].name # tasks[i].name)
                => ~exists(output_dir, tasks[i].name)

\* a response no list can be taken from: transport error, non-200 status, an
\* empty body, a body holding no JSON, an API error code, or a JSON document
\* that is a list or an empty object
Unusable(r) ==
    \/ r.net # "ok"
    \/ r.status # 200
    \/ r.text.k \in {"empty", "garbage"}
    \/ r.text.shape \in {"error", "toplevel", "emptyobj"}

\* C12: when the last candidate fails too, run() ends with a failure result
\* and leaves the URL file, the URL set, the store and the counters as they
\* were; a run that reports failure has attempted no asset fetch.
C12_ResolverFailure ==
    [][ /\ (prog = "splash" /\ pc = "fetch_list" /\ Len(api_log) + 1 = Len(endpoints)
              /\ Unusable(api_resp'))
          => /\ pc' = "done" /\ success' = "False"
             /\ UNCHANGED << url_file, url_set, output_dir, downloaded_count,
                             skipped_count, failed_count, last >>
        /\ (prog = "app" /\ pc = "start" /\ Unusable(api_resp'))
          => /\ pc' = "done" /\ exit_code' = "1"
             /\ UNCHANGED << download_dir, report_data, last >>
        /\ (prog = "splash" /\ success' = "False")
          => (pc' = "done" /\ last' = NoLast) ]_vars

\* a second run of splash_downloader.py whose four candidates all failed,
\* over the URL file and the store the first run left
C12_Witness ==
    /\ prog = "splash" /\ pc = "done" /\ success = "False"
    /\ Unusable(api_resp)
    /\ url_file # <<>> /\ output_dir # {}

\* C13: while untried candidates remain, whatever a candidate answers the
\* resolver either accepts it or goes on to the next candidate; the run does
\* not end in failure.
C13_TrialErrorsLocal ==
    [][ (prog = "splash" /\ pc = "fetch_list" /\ Len(api_log) + 1 < Len(endpoints))
          => \/ pc' = "fetch_list" /\ api_log' = Append(api_log, api_resp'.url)
             \/ pc' \in {"items", "done"} /\ success' # "False" ]_vars

\* the exit status of the process once the run has ended
ExitSignal == IF prog = "splash" THEN exit_status(success) ELSE exit_code

\* the run has ended with a resolved list
Resolved ==
    /\ pc = "done"
    /\ IF prog = "splash" THEN success = "True"
       ELSE splash_items # <<>> \/ ExplicitEmpty(api_resp)

\* list resolved, no descriptor failed, nothing downloaded
NothingToDo ==
    /\ Resolved /\ Failed = 0 /\ Downloaded = 0
    /\ last.outcome \in {"none", "Skipped", "SkippedDuplicateURL", "SkippedDuplicateContent"}

\* no candidate endpoint produced a usable list
TotalFailure ==
    /\ pc = "done" /\ ~Resolved
    /\ api_resp # NoResp /\ Unusable(api_resp)

\* list resolved, at least one descriptor Failed and at least one not
PartialSuccess == Resolved /\ Failed >= 1 /\ Downloaded + Skipped >= 1

\* C14: the exit signal takes different values for nothing to do, total
\* failure and partial success: nothing to do exits with 0, total failure
\* with 1, so partial success exits with neither of the two.
C14_ExitSignal ==
    prog \in {"splash", "app"}
      => /\ NothingToDo => ExitSignal = "0"
         /\ TotalFailure => ExitSignal = "1"
         /\ PartialSuccess => ExitSignal \notin {"0", "1"}

\* C15: a descriptor whose source URL is empty or shorter than 10 characters
\* ends Failed, the failed counter growing by one, with no request, no
\* ledger line and no file, and the run goes on with the next descriptor.
C15_Validation ==
    [][ (SD_ItemStep /\ IsDict(splash_list[item_idx]) /\ Len(SD_CurrentUrl) < 10)
          => /\ failed_count' = failed_count + 1
             /\ last'.requests = 0
             /\ url_file' = url_file /\ output_dir' = output_dir
             /\ pc' = IF item_idx < Len(splash_list) THEN "items" ELSE "done" ]_vars

C17_CounterExclusivity ==
    (prog = "wall" /\ pc = "pool" /\ \A i \in 1..Len(tasks) : tasks[i].tpc = "end")
      => downloaded_count + skipped_count + failed_count = pool_base + Len(tasks)

\* C18: two downloads of one pool that target the same file do not
\* interleave: they never write the file at the same time and at most one
\* of them ends Downloaded.
C18_PerUrlAtomicity ==
    prog = "wall"
      => \A i, j \in 1..Len(tasks) :
           (i # j /\ tasks[i].name = tasks[j].name)
             => /\ ~(tasks[i].tpc = "write" /\ tasks[j].tpc = "write")
                /\ ~(tasks[i].outcome = "Downloaded" /\ tasks[j].outcome = "Downloaded")

\* every delay of a sequence is positive and greater than the one before it
Increasing(s) == \A k \in 1..Len(s) : s[k] > 0 /\ (k > 1 => s[k] > s[k - 1])

\* C19: within the retry loop of one asset every retry is preceded by a
\* delay that is positive and greater than the delay before the attempt
\* preceding it.
C19_Backoff ==
    /\ prog = "app" => Increasing(slept)
    /\ prog = "wall" => \A i \in 1..Len(tasks) : Increasing(tasks[i].slept)

\* C20: a download whose response is HTTP 200 with a content type that is
\* not image/* does not end Downloaded and produces no stored file and no
\* ledger line.
C20_ContentTypeGate ==
    [][ (prog \in {"splash", "app"} /\ item_idx' = item_idx + 1
           /\ last'.ctype = "text/html")
          => /\ last'.outcome # "Downloaded"
             /\ output_dir' = output_dir /\ download_dir' = download_dir
             /\ url_file' = url_file ]_vars

\* a success-status, success-code JSON response in which none of the known
\* list shapes is present
UnknownShape(r) ==
    /\ r.net = "ok" /\ r.status = 200 /\ r.text.k = "json"
    /\ r.text.shape \in {"noshape", "datanull"}

\* C21: a success-status response in which no known list shape is present is
\* a parse failure: the resolver does not accept that candidate and goes on
\* to the next one (failing when it was the last); the only response accepted
\* as an empty list is one whose known shape holds zero items.
C21_UnknownShape ==
    [][ (prog = "splash" /\ pc = "fetch_list")
          => /\ UnknownShape(api_resp')
                  => IF Len(api_log) + 1 < Len(endpoints)
                     THEN pc' = "fetch_list" /\ api_log' = Append(api_log, api_resp'.url)
                     ELSE pc' = "done" /\ success' = "False"
             /\ (pc' = "done" /\ success' = "True")
                  => /\ api_resp'.net = "ok" /\ api_resp'.status = 200
                     /\ api_resp'.text.shape = "empty" ]_vars

C23_ResolverFrame ==
    [][ (prog = "splash" /\ pc \in {"start", "fetch_list"})
          => UNCHANGED << url_file, url_set, output_dir,
                          downloaded_count, skipped_count, failed_count >> ]_vars

\* the resolver of a later run, started on a ledger and a store that are not
\* empty, has passed over its first candidate
C23_Witness ==
    /\ prog = "splash" /\ pc = "fetch_list" /\ Len(api_log) = 1
    /\ api_resp.url = endpoints[1]
    /\ url_file # <<>> /\ url_set # {} /\ output_dir # {}

\* a content hash
IsHash(x) == x \in { sha256(c) : c \in Contents }

\* a line of the form hash|url
HashForm(line) == Len(line) >= 2 /\ IsHash(line[1]) /\ line[2] = "|"

\* the URL a ledger line stands for: the text after "hash|" when the line
\* is of that form, else the whole line, white space around it apart; a
\* blank line stands for none
LineUrls(line) ==
    LET l == strip(line)
    IN IF l = <<>> THEN {}
       ELSE IF HashForm(l) THEN { Join(SubSeq(l, 3, Len(l))) }
       ELSE { Join(l) }

\* what is read from a line: its URL, except that a bare URL holding a "|"
\* is read as if it were hash|url
ReadUrls(line) ==
    LET l == strip(line)
    IN IF l # <<>> /\ ~HashForm(l) /\ Find(l, 1) > 0
       THEN { Join(strip(SubSeq(l, Find(l, 1) + 1, Len(l)))) }
       ELSE LineUrls(line)

\* a step that loads the URL file, in the specification of the file alone
LoadStep == prog = "splash" /\ pc = "ledger" /\ last' = NoLast

\* C24 as stated: a load puts the URL of every non-empty line of the URL
\* file into the set, be the line hash|url or a bare URL, and does not
\* raise; so after an append of (h, u) a load gives a set holding exactly u
\* for that line.
C24_LedgerRoundTrip_Stated ==
    [][ LoadStep
          => url_set' = UNION { LineUrls(url_file[i]) : i \in 1..Len(url_file) } ]_vars

\* C24: a load does not raise and puts into the set what it reads from
\* every non-empty line up to the point where reading the file fails, if it
\* does: the text after the first "|" of a line that has one, else the line;
\* this is the URL of the line unless the line is a bare URL holding a "|".
\* After an append of (h, u), a load that reads the whole file gives a set
\* holding u.
C24_LedgerRoundTrip ==
    [][ LoadStep
          => /\ load_read' \in 0..Len(url_file)
             /\ url_set' = UNION { ReadUrls(url_file[i]) : i \in 1..load_read' }
             /\ load_read' = Len(url_file)
                  => \A i \in 1..Len(url_file), c \in Contents, u \in SavedUrls :
                       url_file[i] = Line(sha256(c), u) => u \in url_set' ]_vars

\* a file holding a bare URL with a "|" and a line appended for a URL with
\* a "|" has been loaded whole
C24_Witness ==
    /\ prog = "splash" /\ pc = "ledger" /\ last = NoLast
    /\ Len(url_file) = 3 /\ load_read = 3
    /\ url_file[3] \in { Line(sha256(c), UBar) : c \in Contents }
    /\ url_file[1] = <<UBarHead, "|", UBarTail>>
    /\ {UBar, UBarTail} \subseteq url_set

\* the keys of a record that may hold its source URL, in priority order
Priority == <<"thumb", "image", "url", "image_url", "splash", "cover">>

\* the positions in Priority of the keys present in a record with a
\* non-empty value
Present(item) ==
    { i \in 1..Len(Priority) :
        /\ Priority[i] \in DOMAIN item.f
        /\ item.f[Priority[i]] \notin {JNull, JStr("")} }

\* C25: the source URL of a record is the value of the first key of thumb,
\* image, url, image_url, splash, cover that is present with a non-empty
\* value, and one fetch is made for the record, of that URL; a record with
\* none of the keys set is dropped without a fetch, with the stored state
\* and the counters unchanged, and the run goes on.
C25_FieldPriority ==
    [][ (SD_ItemStep /\ IsDict(splash_list[item_idx]))
          => LET item == splash_list[item_idx]
                 first == CHOOSE i \in Present(item) : \A j \in Present(item) : i =< j
             IN /\ IF Present(item) = {}
                   THEN /\ last'.outcome = "NoUrl" /\ last'.requests = 0
                        /\ UNCHANGED << url_file, url_set, output_dir, downloaded_count,
                                        skipped_count, failed_count >>
                   ELSE /\ last'.url = item.f[Priority[first]].x
                        /\ last'.outcome \notin {"NoUrl", "ItemError", "none"}
                        /\ last'.requests =< 1
                /\ success' # "False"
                /\ pc' = IF item_idx < Len(splash_list) THEN "items" ELSE "done" ]_vars

\* the record with an empty thumb, then image, then url was fetched from its
\* image value
C25_Witness ==
    /\ prog = "splash" /\ item_idx = 3 /\ splash_list = <<RecThumb1, RecImage2>>
    /\ last.url = U2 /\ last.outcome = "Downloaded"

\* C26: a record that is itself a string holding an absolute HTTP(S) URL is
\* taken as the source URL and fetched like the URL of any other record.
C26_BareString ==
    [][ (SD_ItemStep /\ splash_list[item_idx] = JStr(U1))
          => /\ last'.url = U1
             /\ last'.outcome \in {"Downloaded", "SkippedDuplicateContent",
                                   "SkippedDuplicateURL", "Failed"} ]_vars

\* C27: at most MAX_CONCURRENT_DOWNLOADS downloads are in flight at any
\* time; while a download is submitted and not finished, run() is inside
\* the pool of the album at the head of the queue and issues no listing
\* request; the pool of an album is drained before the next album starts.
C27_BoundedPool ==
    prog = "wall"
      => /\ Cardinality(InFlight(tasks)) =< MAX_CONCURRENT_DOWNLOADS
         /\ (\E i \in 1..Len(tasks) : tasks[i].tpc # "end")
              => /\ pc = "pool"
                 /\ \A i \in 1..Len(tasks) : tasks[i].album = album_name(Head(album_queue))
         /\ pc # "pool" => tasks = <<>>

\* every thread of the pool is busy and a submitted download waits for one
C27_Witness ==
    /\ prog = "wall" /\ pc = "pool" /\ Len(tasks) > MAX_CONCURRENT_DOWNLOADS
    /\ Cardinality(InFlight(tasks)) = MAX_CONCURRENT_DOWNLOADS
    /\ \E i \in 1..Len(tasks) : tasks[i].tpc = "check"

\* C28: the URL set never runs ahead of the URL file: every URL in the set
\* is the URL of a line of the file, read when the run started or appended
\* since; when the append of a fetch fails, the set is not updated and the
\* fetch ends with its outcome instead of raising.
C28_SetBehindFile ==
    [][ prog = "splash"
          => /\ url_set' \subseteq load_url_set(url_file', Len(url_file'))
             /\ (SD_ItemStep /\ last'.requests = 1 /\ last'.outcome # "Failed"
                   /\ ~last'.saved)
                  => /\ UNCHANGED << url_set, url_file >>
                     /\ last'.outcome \in {"Downloaded", "SkippedDuplicateContent"}
                     /\ pc' = IF item_idx < Len(splash_list) THEN "items" ELSE "done" ]_vars

\* in a later run the content of a fetch was found in the store and the
\* append of its line failed
C28_Witness ==
    /\ prog = "splash" /\ prev_handled # {} /\ url_set # {}
    /\ last.outcome = "SkippedDuplicateContent" /\ ~last.saved
    /\ Len(url_file) = Cardinality(url_set)

\* C29: a second run over an unchanged list changes nothing: for a record
\* whose URL the run before completed and recorded, no download request is
\* issued and the ledger file and the store stay exactly as they were.
C29_SecondRunFrame ==
    [][ (SD_ItemStep /\ SD_CurrentUrl \in Urls(prev_handled))
          => /\ last'.requests = 0
             /\ url_file' = url_file
             /\ output_dir' = output_dir ]_vars

\* a step of the page loop of getwallpaper.py: the request of a page
WP_PageStep == prog = "wall" /\ pc = "page" /\ now' = now + 1

C31_SpacedRetries ==
    prog = "wall"
      => /\ Cardinality({ i \in 1..Len(api_trail) : api_trail[i].e = "request" })
              =< WP_MAX_RETRIES
         /\ \A i \in 2..Len(api_trail) :
              api_trail[i].e = "request"
                => api_trail[i - 1].e = "sleep" /\ api_trail[i - 1].d > 0

====
